---------------------------- MODULE Spec2Model ----------------------------
(***************************************************************************)
(* The simulation core of bevy_pong (src/src/lib.rs): the five systems     *)
(* PongPlugin registers, the state they read and write, and the schedule   *)
(* their labels allow.                                                     *)
(*                                                                         *)
(* Numbers.  The code computes in f32.  The model keeps every time as an   *)
(* integer count of half seconds (a delta of 0.5 s is 1), every length as  *)
(* an integer count of halves (a length of 7.5 is 15), and a velocity in   *)
(* whole units per second, so that position + velocity * delta is the same *)
(* number in both.  On the default court every length and velocity is      *)
(* moreover counted in parts of 1 / Fine, so that six multiplications by   *)
(* the default speed-up factor 1.1 = 11 / 10 stay whole numbers.  With a   *)
(* whole factor every value the model reaches is a small dyadic rational,  *)
(* on which the f32 operations of the code are exact; with the factor 1.1  *)
(* the model holds the exact product where the code holds the f32 nearest  *)
(* to it.                                                                  *)
(***************************************************************************)
EXTENDS Integers, Sequences, FiniteSets, TLC

VARIABLES
    options,      \* Res<PongOptions>
    paddle,       \* Player -> Transform.translation (x, y) of the paddles alive
    score,        \* Player -> Score.0 (u16)
    ball,         \* Transform.translation (x, y) of the ball
    vel,          \* Velocity of the ball
    timer,        \* BallSpeedupTimer: the repeating Timer (elapsed, times_finished)
    events,       \* Events<ScoredPointEvent>: the two buffers, oldest first
    event_count,  \* Events<ScoredPointEvent>::event_count
    reader,       \* EventReader of update_score_text: last_event_count
    text,         \* the Text of the ScoreDisplayText entities (none or one)
    dt,           \* Time::delta of the running frame
    clock,        \* Time::time_since_startup
    keys,         \* Input<KeyCode>: the keys pressed in the running frame
    done,         \* the systems that have run in the running frame
    panicked,     \* a system has panicked: the app runs no further system
    bounced,      \* history: a wall test of apply_ball_velocity has fired
    last,         \* history: the step taken last
    pre,          \* history: the entities and the timer before the last step
    tick0         \* history: the entities and the timer as the frame began

vars == <<options, paddle, score, ball, vel, timer, events, event_count,
          reader, text, dt, clock, keys, done, panicked, bounced, last, pre,
          tick0>>

\* What the history variables record of a state.
Snapshot ==
    [ paddle |-> paddle, score |-> score, ball |-> ball, vel |-> vel,
      timer |-> timer, event_count |-> event_count, reader |-> reader,
      text |-> text ]

\* The history kept by the step of system s.
Step(s) ==
    /\ last' = s
    /\ pre' = Snapshot
    /\ tick0' = tick0

(***************************************************************************)
(* Bounds of the model.                                                    *)
(***************************************************************************)
\* Simulated time (in half seconds) a behaviour of Spec may cover.
MaxClock == 3

\* Simulated time (in half seconds) a behaviour of SpecArena may cover.
MaxArenaClock == 20

\* Frame deltas (in half seconds) the host may supply under Spec.
DeltaTimes == {0, 1, 2}

\* Frame deltas under SpecArena: 20 is 10 s.
ArenaDeltaTimes == {0, 1, 10, 20}

\* Simulated time (in half seconds) a behaviour of SpecEdge may cover.
MaxEdgeClock == 32

\* Frame deltas under SpecEdge: 30 is ten speed-up periods.
EdgeDeltaTimes == {0, 2, 30}

\* The sets of keys the host may report as pressed under SpecArena.
ArenaKeys == {{}, {"W", "Down"}}

(***************************************************************************)
(* Types.                                                                  *)
(***************************************************************************)
Player == {"Player1", "Player2"}

KeyCode == {"W", "S", "Up", "Down"}

Systems == {"handle_player_input", "speedup_ball", "apply_ball_velocity",
            "check_point_scored", "update_score_text"}

Vec2(x, y) == [x |-> x, y |-> y]

\* u16: the width of Score.
U16 == 65536

Abs(n) == IF n < 0 THEN -n ELSE n

(***************************************************************************)
(* Configurations.  PongOptions is a public resource the host may insert   *)
(* before start-up; start_velocity is a function the host supplies, held   *)
(* here as the set of vectors it may return; speedup_factor is held as the *)
(* ratio of two whole numbers.                                             *)
(***************************************************************************)
Ratio(num, den) == [num |-> num, den |-> den]

\* The parts of a half in which the default court counts its lengths: a
\* velocity of 30 or 15 stays whole over six multiplications by 11 / 10.
Fine == 2^6 * 5^5

\* A PongOptions with the sizes, keys, speed and speed-up period of
\* PongOptions::default() (lengths and times doubled, lengths and velocities
\* in parts of 1 / unit), and the speed-up factor and the generator the host
\* gives it.
ArenaOptions(unit, factor, velocities) ==
    [ game_size      |-> Vec2(1200 * unit, 800 * unit),
      player_size    |-> Vec2(10 * unit, 100 * unit),
      player1_keys   |-> <<"W", "S">>,
      player2_keys   |-> <<"Up", "Down">>,
      player_speed   |-> 200 * unit,
      ball_size      |-> Vec2(30 * unit, 30 * unit),
      start_velocity |-> {Vec2(v.x * unit, v.y * unit) : v \in velocities},
      speedup_factor |-> factor,
      speedup_time   |-> 3,
      score_display  |-> TRUE ]

\* PongOptions::default(): factor 1.1, the generator returning (30, 15).
PongOptions_default == ArenaOptions(Fine, Ratio(11, 10), {Vec2(30, 15)})

\* A small court on which every collision case is a few frames away.
SmallOptions ==
    [ game_size      |-> Vec2(16, 12),
      player_size    |-> Vec2(2, 4),
      player1_keys   |-> <<"W", "S">>,
      player2_keys   |-> <<"Up", "Down">>,
      player_speed   |-> 4,
      ball_size      |-> Vec2(4, 4),
      start_velocity |-> {Vec2(3, 3), Vec2(-2, -3)},
      speedup_factor |-> Ratio(2, 1),
      speedup_time   |-> 3,
      score_display  |-> TRUE ]

\* PongOptions::up_for
up_for(opt, player) ==
    IF player = "Player1" THEN opt.player1_keys[1] ELSE opt.player2_keys[1]

\* PongOptions::down_for
down_for(opt, player) ==
    IF player = "Player1" THEN opt.player1_keys[2] ELSE opt.player2_keys[2]

\* Player::start_position
Player_start_position(opt, player) ==
    LET x == opt.game_size.x \div 2 - opt.player_size.x
    IN  IF player = "Player1" THEN Vec2(-x, 0) ELSE Vec2(x, 0)

\* Ball::start_position
Ball_start_position == Vec2(0, 0)

(***************************************************************************)
(* format!("{}", points) and its inverse: a score as its decimal digits.   *)
(***************************************************************************)
DigitChar == <<"0", "1", "2", "3", "4", "5", "6", "7", "8", "9">>

RECURSIVE Format(_)
Format(n) ==
    IF n < 10 THEN <<DigitChar[n + 1]>>
    ELSE Format(n \div 10) \o <<DigitChar[(n % 10) + 1]>>

DigitValue(c) == CHOOSE d \in 0..9 : DigitChar[d + 1] = c

RECURSIVE ParseDecimal(_)
ParseDecimal(s) ==
    IF Len(s) = 0 THEN 0
    ELSE 10 * ParseDecimal(SubSeq(s, 1, Len(s) - 1)) + DigitValue(s[Len(s)])

(***************************************************************************)
(* setup_pong: the state after start-up.                                   *)
(***************************************************************************)
setup_pong(opt) ==
    /\ options = opt
    /\ paddle = [p \in Player |-> Player_start_position(opt, p)]
    /\ score = [p \in Player |-> 0]
    /\ ball = Ball_start_position
    /\ vel \in opt.start_velocity
    /\ timer = [elapsed |-> 0, times_finished |-> 0]
    /\ events = [old |-> <<>>, new |-> <<>>]
    /\ event_count = 0
    /\ reader = 0
    /\ text = IF opt.score_display
                THEN << <<Format(0), <<":">>, Format(0)>> >>
                ELSE <<>>
    /\ dt = 0
    /\ clock = 0
    /\ keys = {}
    /\ done = Systems
    /\ panicked = FALSE
    /\ bounced = FALSE
    /\ last = "setup_pong"
    /\ pre = Snapshot
    /\ tick0 = Snapshot

(***************************************************************************)
(* PongPlugin::build: the labels of the five systems and what each runs    *)
(* after.  A system may run once every system carrying a label it is       *)
(* `after` has run; systems the labels do not order run in either order.   *)
(***************************************************************************)
Label ==
    [ handle_player_input |-> "a", speedup_ball        |-> "a",
      apply_ball_velocity |-> "b", check_point_scored  |-> "b",
      update_score_text   |-> "c" ]

\* A build that orders update_score_text after "a" only.
After_SinkEarly ==
    [ handle_player_input |-> {},    speedup_ball       |-> {},
      apply_ball_velocity |-> {"a"}, check_point_scored |-> {"a"},
      update_score_text   |-> {"a"} ]

After ==
    [ handle_player_input |-> {},    speedup_ball       |-> {},
      apply_ball_velocity |-> {"a"}, check_point_scored |-> {"a"},
      update_score_text   |-> {"b"} ]

Before(s) == {t \in Systems : Label[t] \in After[s]}

\* A panic in a system ends the app: no system runs after it.
Ready(s) == ~panicked /\ s \notin done /\ Before(s) \subseteq done

(***************************************************************************)
(* The start of a frame: Time and Input are refreshed, and                 *)
(* Events::update_system (added by add_event) drops the older buffer.      *)
(***************************************************************************)
Events_update(ev) == [old |-> ev.new, new |-> <<>>]

BeginTick(deltas, pressed, horizon) ==
    /\ done = Systems
    /\ \E d \in deltas, k \in pressed :
          /\ clock + d <= horizon
          /\ dt' = d
          /\ clock' = clock + d
          /\ keys' = k
    /\ events' = Events_update(events)
    /\ done' = {}
    /\ last' = "BeginTick"
    /\ pre' = Snapshot
    /\ tick0' = Snapshot
    /\ UNCHANGED <<options, paddle, score, ball, vel, timer, event_count,
                   reader, text, panicked, bounced>>

(***************************************************************************)
(* handle_player_input                                                     *)
(***************************************************************************)
\* The loop body without its two bound tests.
MovePaddle_Unchecked(opt, player, y, pressed, delta) ==
    LET movement == opt.player_speed * delta
        y1 == IF up_for(opt, player) \in pressed THEN y + movement ELSE y
    IN  IF down_for(opt, player) \in pressed THEN y1 - movement ELSE y1

\* A loop body whose two bound tests both read the y the paddle began with.
MovePaddle_PreMove(opt, player, y, pressed, delta) ==
    LET movement == opt.player_speed * delta
        hps == opt.player_size.y \div 2
        hgs == opt.game_size.y \div 2
        y1 == IF up_for(opt, player) \in pressed /\ (y + hps + movement) <= hgs
                THEN y + movement ELSE y
    IN  IF down_for(opt, player) \in pressed /\ (y - hps - movement) >= -hgs
          THEN y1 - movement ELSE y1

\* The body of the loop: the new y of one paddle.
MovePaddle(opt, player, y, pressed, delta) ==
    LET movement == opt.player_speed * delta
        hps == opt.player_size.y \div 2
        hgs == opt.game_size.y \div 2
        y1 == IF up_for(opt, player) \in pressed /\ (y + hps + movement) <= hgs
                THEN y + movement ELSE y
    IN  IF down_for(opt, player) \in pressed /\ (y1 - hps - movement) >= -hgs
          THEN y1 - movement ELSE y1

handle_player_input ==
    /\ Ready("handle_player_input")
    /\ paddle' = [p \in DOMAIN paddle |->
                    [paddle[p] EXCEPT !.y = MovePaddle(options, p, @, keys, dt)]]
    /\ done' = done \cup {"handle_player_input"}
    /\ Step("handle_player_input")
    /\ UNCHANGED <<options, score, ball, vel, timer, events, event_count,
                   reader, text, dt, clock, keys, panicked, bounced>>

(***************************************************************************)
(* speedup_ball                                                            *)
(***************************************************************************)
\* Timer::tick of a repeating timer that is not paused.
Timer_tick(t, duration, delta) ==
    LET elapsed == t.elapsed + delta
    IN  IF elapsed >= duration
          THEN LET times == elapsed \div duration
               IN  [elapsed |-> elapsed - duration * times, times_finished |-> times]
          ELSE [elapsed |-> elapsed, times_finished |-> 0]

\* Timer::just_finished
just_finished(t) == t.times_finished > 0

\* f32 * f32 with the factor held as a ratio; whole on every value reached.
Times(n, factor) == (n * factor.num) \div factor.den

RECURSIVE Scale(_, _, _)
Scale(v, factor, times) ==
    IF times = 0 THEN v
    ELSE Scale(Vec2(Times(v.x, factor), Times(v.y, factor)), factor, times - 1)

\* A speed-up applied once for every period the timer crossed.
Speedup_PerPeriod(opt, t, v) == Scale(v, opt.speedup_factor, t.times_finished)

\* vel.0 *= options.ball.speedup_factor, after the early return.
Speedup(opt, t, v) ==
    IF ~just_finished(t) THEN v
    ELSE Vec2(Times(v.x, opt.speedup_factor), Times(v.y, opt.speedup_factor))

speedup_ball ==
    /\ Ready("speedup_ball")
    /\ timer' = Timer_tick(timer, options.speedup_time, dt)
    /\ vel' = Speedup(options, timer', vel)
    /\ done' = done \cup {"speedup_ball"}
    /\ Step("speedup_ball")
    /\ UNCHANGED <<options, paddle, score, ball, events, event_count,
                   reader, text, dt, clock, keys, panicked, bounced>>

(***************************************************************************)
(* apply_ball_velocity                                                     *)
(***************************************************************************)
\* bevy::sprite::collide_aabb::collide: the side of b that a struck, or
\* "None".  a is the paddle and b the ball at the call in apply_ball_velocity.
collide(a_pos, a_size, b_pos, b_size) ==
    LET a_min == Vec2(a_pos.x - a_size.x \div 2, a_pos.y - a_size.y \div 2)
        a_max == Vec2(a_pos.x + a_size.x \div 2, a_pos.y + a_size.y \div 2)
        b_min == Vec2(b_pos.x - b_size.x \div 2, b_pos.y - b_size.y \div 2)
        b_max == Vec2(b_pos.x + b_size.x \div 2, b_pos.y + b_size.y \div 2)
        x_collision ==
            IF a_min.x < b_min.x /\ a_max.x > b_min.x /\ a_max.x < b_max.x
              THEN <<"Left", b_min.x - a_max.x>>
            ELSE IF a_min.x > b_min.x /\ a_min.x < b_max.x /\ a_max.x > b_max.x
              THEN <<"Right", a_min.x - b_max.x>>
            ELSE <<"None", 0>>
        y_collision ==
            IF a_min.y < b_min.y /\ a_max.y > b_min.y /\ a_max.y < b_max.y
              THEN <<"Bottom", b_min.y - a_max.y>>
            ELSE IF a_min.y > b_min.y /\ a_min.y < b_max.y /\ a_max.y > b_max.y
              THEN <<"Top", a_min.y - b_max.y>>
            ELSE <<"None", 0>>
    IN  IF a_min.x < b_max.x /\ a_max.x > b_min.x
           /\ a_min.y < b_max.y /\ a_max.y > b_min.y
          THEN IF x_collision[1] # "None" /\ y_collision[1] # "None"
                 THEN IF Abs(y_collision[2]) < Abs(x_collision[2])
                        THEN y_collision[1] ELSE x_collision[1]
               ELSE IF x_collision[1] # "None" THEN x_collision[1]
               ELSE y_collision[1]
          ELSE "None"

\* An integration that moves both axes by the horizontal velocity.
Integrate_Swapped(b, v, delta) == Vec2(b.x + v.x * delta, b.y + v.x * delta)

\* An integration that adds the velocity whatever the delta.
Integrate_NoDelta(b, v, delta) == Vec2(b.x + v.x, b.y + v.y)

\* trans.translation += vel * delta, on both axes.
Integrate(b, v, delta) == Vec2(b.x + v.x * delta, b.y + v.y * delta)

\* A match with the two arms exchanged.
Respond_Swapped(v, col) ==
    IF col \in {"Left", "Right"} THEN Vec2(v.x, -v.y)
    ELSE IF col \in {"Top", "Bottom"} THEN Vec2(-v.x, v.y)
    ELSE v

\* The match on the collision with one paddle.
Respond(v, col) ==
    IF col \in {"Left", "Right"} THEN Vec2(-v.x, v.y)
    ELSE IF col \in {"Top", "Bottom"} THEN Vec2(v.x, -v.y)
    ELSE v

\* The face the ball at b strikes on the paddle of player p.
PaddleHit(opt, pads, p, b) ==
    collide(pads[p], opt.player_size, b, opt.ball_size)

\* The players a query visits, in spawn order.
QueryOrder(pads) ==
    SelectSeq(<<"Player1", "Player2">>, LAMBDA p : p \in DOMAIN pads)

\* for p_trans in players.iter(): the velocity after every paddle has answered.
RECURSIVE CollidePlayers(_, _, _, _, _)
CollidePlayers(opt, pads, order, b, v) ==
    IF order = <<>> THEN v
    ELSE CollidePlayers(opt, pads, Tail(order), b,
                        Respond(v, PaddleHit(opt, pads, Head(order), b)))

\* The wall the ball at b touches: the if / else if after the paddle loop.
WallHit(opt, b) ==
    LET hgs == opt.game_size.y \div 2
        hbs == opt.ball_size.y \div 2
    IN  IF b.y + hbs >= hgs THEN "Top"
        ELSE IF b.y - hbs <= -hgs THEN "Bottom"
        ELSE "None"

\* A wall test that turns the ball round without putting it on the wall.
Walls_Unclamped(opt, b, v) ==
    IF WallHit(opt, b) # "None" THEN [ball |-> b, vel |-> Vec2(v.x, -v.y)]
    ELSE [ball |-> b, vel |-> v]

\* The ball and its velocity after the wall test.
Walls(opt, b, v) ==
    LET hgs == opt.game_size.y \div 2
        hbs == opt.ball_size.y \div 2
        w == WallHit(opt, b)
    IN  IF w = "Top" THEN [ball |-> Vec2(b.x, hgs - hbs), vel |-> Vec2(v.x, -v.y)]
        ELSE IF w = "Bottom"
          THEN [ball |-> Vec2(b.x, -hgs + hbs), vel |-> Vec2(v.x, -v.y)]
        ELSE [ball |-> b, vel |-> v]

\* The body of the loop over the balls.
MoveBall(opt, pads, b, v, delta) ==
    LET moved == Integrate(b, v, delta)
    IN  Walls(opt, moved, CollidePlayers(opt, pads, QueryOrder(pads), moved, v))

apply_ball_velocity ==
    /\ Ready("apply_ball_velocity")
    /\ LET r == MoveBall(options, paddle, ball, vel, dt)
       IN  /\ ball' = r.ball
           /\ vel' = r.vel
    /\ bounced' = (bounced \/ WallHit(options, Integrate(ball, vel, dt)) # "None")
    /\ done' = done \cup {"apply_ball_velocity"}
    /\ Step("apply_ball_velocity")
    /\ UNCHANGED <<options, paddle, score, timer, events, event_count,
                   reader, text, dt, clock, keys, panicked>>

(***************************************************************************)
(* check_point_scored                                                      *)
(***************************************************************************)
\* A boundary test that credits the player on the side the ball left.
Scorer_Swapped(opt, b) ==
    LET max_x == opt.game_size.x \div 2
        hbsx == opt.ball_size.x \div 2
    IN  IF b.x - hbsx <= -max_x THEN "Player1"
        ELSE IF b.x + hbsx >= max_x THEN "Player2"
        ELSE "None"

\* The player the ball at b scores for: the if / else if of the loop.
Scorer(opt, b) ==
    LET max_x == opt.game_size.x \div 2
        min_x == -max_x
        hbsx == opt.ball_size.x \div 2
    IN  IF b.x - hbsx <= min_x THEN "Player2"
        ELSE IF b.x + hbsx >= max_x THEN "Player1"
        ELSE "None"

\* score.0 += 1 on a u16: the outcomes the builds produce.  Below u16::MAX
\* the sum; at u16::MAX the release build wraps to 0 and the debug build
\* panics (attempt to add with overflow) with the score as it was.
Increment(n) ==
    IF n + 1 < U16
      THEN {[panic |-> FALSE, value |-> n + 1]}
      ELSE {[panic |-> FALSE, value |-> (n + 1) % U16],
            [panic |-> TRUE, value |-> n]}

\* reset_player_and_send_event: the scores after it, inc being the outcome of
\* the increment of the scoring player's score.
ScoresAfter(sc, scoring_player, inc) ==
    [p \in DOMAIN sc |-> IF p = scoring_player THEN inc.value ELSE sc[p]]

\* reset_player_and_send_event: the events it sends, in the order sent; a
\* panic of the increment comes before the send.
EventsSent(sc, scoring_player, inc) ==
    IF inc.panic THEN <<>>
    ELSE LET order == SelectSeq(QueryOrder(sc), LAMBDA p : p = scoring_player)
         IN  [i \in 1..Len(order) |->
                 [player |-> order[i],
                  score |-> ScoresAfter(sc, scoring_player, inc)[order[i]]]]

\* A reset that puts the whole translation of every paddle at the origin.
PaddlesReset_Origin(pads, scoring_player, inc) ==
    [p \in DOMAIN pads |-> Vec2(0, 0)]

\* reset_player_and_send_event: the paddles after it.  The loop sets the y of
\* each paddle after the increment of that iteration, so a panic leaves the
\* paddle of the scoring player and those the query visits after it alone.
PaddlesReset(pads, scoring_player, inc) ==
    LET order == QueryOrder(pads)
        At(p) == CHOOSE i \in 1..Len(order) : order[i] = p
    IN  [p \in DOMAIN pads |->
            IF inc.panic /\ At(p) >= At(scoring_player)
              THEN pads[p]
              ELSE [pads[p] EXCEPT !.y = 0]]

\* A writer that sends only when a score display is configured.
Events_send_IfDisplayed(ev, sent) ==
    IF options.score_display THEN [ev EXCEPT !.new = @ \o sent] ELSE ev

\* EventWriter::send, for each event of sent.
Events_send(ev, sent) == [ev EXCEPT !.new = @ \o sent]

check_point_scored ==
    /\ Ready("check_point_scored")
    /\ LET scoring_player == Scorer(options, ball)
       IN  IF scoring_player = "None"
             THEN /\ done' = done \cup {"check_point_scored"}
                  /\ UNCHANGED <<ball, vel, paddle, score, events, event_count,
                                 panicked>>
             ELSE \E inc \in Increment(score[scoring_player]) :
                  LET sent == EventsSent(score, scoring_player, inc)
                  IN  /\ ball' = Vec2(0, 0)
                      /\ vel' \in options.start_velocity
                      /\ paddle' = PaddlesReset(paddle, scoring_player, inc)
                      /\ score' = ScoresAfter(score, scoring_player, inc)
                      /\ events' = Events_send(events, sent)
                      /\ event_count' = event_count + Len(sent)
                      /\ panicked' = inc.panic
                      /\ done' = IF inc.panic THEN done
                                 ELSE done \cup {"check_point_scored"}
    /\ Step("check_point_scored")
    /\ UNCHANGED <<options, timer, reader, text, dt, clock, keys, bounced>>

(***************************************************************************)
(* update_score_text                                                       *)
(***************************************************************************)
Min(a, b) == IF a < b THEN a ELSE b

\* EventReader::iter: the events sent since the reader last read that the two
\* buffers still hold, oldest first.
Unread(ev, count, last_event_count) ==
    LET held == ev.old \o ev.new
        n == Min(count - last_event_count, Len(held))
    IN  SubSeq(held, Len(held) - n + 1, Len(held))

\* The match on one event, for every Text.
ShowEvent(txt, e) ==
    [i \in 1..Len(txt) |->
        IF e.player = "Player1"
          THEN [txt[i] EXCEPT ![1] = Format(e.score)]
          ELSE [txt[i] EXCEPT ![3] = Format(e.score)]]

RECURSIVE ShowEvents(_, _)
ShowEvents(txt, es) ==
    IF es = <<>> THEN txt ELSE ShowEvents(ShowEvent(txt, Head(es)), Tail(es))

update_score_text ==
    /\ Ready("update_score_text")
    /\ IF ~options.score_display
         THEN UNCHANGED <<text, reader>>
         ELSE /\ text' = ShowEvents(text, Unread(events, event_count, reader))
              /\ reader' = event_count
    /\ done' = done \cup {"update_score_text"}
    /\ Step("update_score_text")
    /\ UNCHANGED <<options, paddle, score, ball, vel, timer, events,
                   event_count, dt, clock, keys, panicked, bounced>>

(***************************************************************************)
(* The specifications.                                                     *)
(***************************************************************************)
Next ==
    \/ BeginTick(DeltaTimes, SUBSET KeyCode, MaxClock)
    \/ handle_player_input
    \/ speedup_ball
    \/ apply_ball_velocity
    \/ check_point_scored
    \/ update_score_text

Init == setup_pong(SmallOptions)

Spec == Init /\ [][Next]_vars

\* Start-up with PongOptions::default().
InitArena == setup_pong(PongOptions_default)

NextArena ==
    \/ BeginTick(ArenaDeltaTimes, ArenaKeys, MaxArenaClock)
    \/ handle_player_input
    \/ speedup_ball
    \/ apply_ball_velocity
    \/ check_point_scored
    \/ update_score_text

SpecArena == InitArena /\ [][NextArena]_vars

\* Start-up on the default court with options the host has given a speed-up
\* factor of 2 and a generator that may also return (-299, 15).
InitEdge ==
    setup_pong(ArenaOptions(1, Ratio(2, 1), {Vec2(30, 15), Vec2(-299, 15)}))

NextEdge ==
    \/ BeginTick(EdgeDeltaTimes, ArenaKeys, MaxEdgeClock)
    \/ handle_player_input
    \/ speedup_ball
    \/ apply_ball_velocity
    \/ check_point_scored
    \/ update_score_text

SpecEdge == InitEdge /\ [][NextEdge]_vars

\* Simulated time (in half seconds) a behaviour of SpecWide may cover.
MaxWideClock == 4

\* Frame deltas under SpecWide.
WideDeltaTimes == {1, 2}

\* The small court with a ball wider than the court: near x = 0 the ball
\* reaches both boundaries at once.
WideOptions == [SmallOptions EXCEPT !.ball_size = Vec2(20, 4)]

InitWide == setup_pong(WideOptions)

NextWide ==
    \/ BeginTick(WideDeltaTimes, SUBSET KeyCode, MaxWideClock)
    \/ handle_player_input
    \/ speedup_ball
    \/ apply_ball_velocity
    \/ check_point_scored
    \/ update_score_text

SpecWide == InitWide /\ [][NextWide]_vars


\* The small court, with or without a score display configured.
InitDisplay ==
    \E display \in BOOLEAN :
        setup_pong([SmallOptions EXCEPT !.score_display = display])

NextDisplay ==
    \/ BeginTick(DeltaTimes, SUBSET KeyCode, MaxClock)
    \/ handle_player_input
    \/ speedup_ball
    \/ apply_ball_velocity
    \/ check_point_scored
    \/ update_score_text

SpecDisplay == InitDisplay /\ [][NextDisplay]_vars

\* A match late on: the state a frame leaves once every player p has scored
\* sc[p] points, the last of them at least two frames ago (ball, velocity and
\* paddles as the last reset left them, both event buffers empty again).
LateMatch(opt, sc) ==
    /\ options = opt
    /\ paddle = [p \in Player |-> Player_start_position(opt, p)]
    /\ score = sc
    /\ ball = Ball_start_position
    /\ vel \in opt.start_velocity
    /\ timer = [elapsed |-> 0, times_finished |-> 0]
    /\ events = [old |-> <<>>, new |-> <<>>]
    /\ event_count = sc["Player1"] + sc["Player2"]
    /\ reader = IF opt.score_display THEN sc["Player1"] + sc["Player2"] ELSE 0
    /\ text = IF opt.score_display
                THEN << <<Format(sc["Player1"]), <<":">>, Format(sc["Player2"])>> >>
                ELSE <<>>
    /\ dt = 0
    /\ clock = 0
    /\ keys = {}
    /\ done = Systems
    /\ panicked = FALSE
    /\ bounced = FALSE
    /\ last = "setup_pong"
    /\ pre = Snapshot
    /\ tick0 = Snapshot

\* Player1 holds u16::MAX points, Player2 one fewer.
InitLate ==
    LateMatch(SmallOptions, [p \in Player |->
                  IF p = "Player1" THEN U16 - 1 ELSE U16 - 2])

NextLate ==
    \/ BeginTick(DeltaTimes, SUBSET KeyCode, MaxClock)
    \/ handle_player_input
    \/ speedup_ball
    \/ apply_ball_velocity
    \/ check_point_scored
    \/ update_score_text

SpecLate == InitLate /\ [][NextLate]_vars

(***************************************************************************)
(* The claims.  Each is stated over the history variables: `last` is the   *)
(* step just taken, `pre` the entities before it, `tick0` the entities as  *)
(* the frame began.                                                        *)
(***************************************************************************)
hgs == options.game_size.y \div 2
hgx == options.game_size.x \div 2
hps == options.player_size.y \div 2
hbs == options.ball_size.y \div 2
hbsx == options.ball_size.x \div 2

Sign(n) == IF n > 0 THEN 1 ELSE IF n < 0 THEN -1 ELSE 0

\* The frame has ended: every system has run.
TickEnded == done = Systems /\ last = "update_score_text"

\* The ball of the last step right after its integration, before any test.
Moved == Integrate(pre.ball, pre.vel, dt)

\* The face each paddle reported in the last physics step.
Faces == [p \in DOMAIN pre.paddle |-> PaddleHit(options, pre.paddle, p, Moved)]

\* C1: every paddle's vertical centre stays within [-H/2 + h/2, H/2 - h/2],
\* whatever deltas, keys and score resets the frames bring.
C1_PaddleBounds ==
    \A p \in DOMAIN paddle : -hgs + hps <= paddle[p].y /\ paddle[p].y <= hgs - hps

\* C1 witness: a paddle whose up key is held in a frame in which the move
\* would leave the court has been through handle_player_input.
C1_Witness ==
    /\ last = "handle_player_input"
    /\ \E p \in DOMAIN paddle :
          /\ up_for(options, p) \in keys
          /\ pre.paddle[p].y + hps + options.player_speed * dt > hgs
          /\ paddle[p].y = hgs - hps

\* C2: in every frame check_point_scored runs only after apply_ball_velocity
\* has run, so that it reads the position this frame's integration produced.
C2_ScoringAfterPhysics ==
    last = "check_point_scored" => "apply_ball_velocity" \in done

\* C3: a scoring step that sees the ball at or beyond the left boundary sends
\* exactly one event, for Player2, puts the ball at (0, 0) with a velocity of
\* the generator, and sets the y of both paddles to 0.
C3_LeftScore ==
    (last = "check_point_scored" /\ pre.ball.x - hbsx <= -hgx) =>
        /\ event_count = pre.event_count + 1
        /\ Len(events.new) >= 1
        /\ events.new[Len(events.new)].player = "Player2"
        /\ ball = Vec2(0, 0)
        /\ vel \in options.start_velocity
        /\ DOMAIN paddle = Player
        /\ \A p \in Player : paddle[p].y = 0

\* C3 witness: the left boundary was crossed with a paddle away from y = 0.
C3_Witness ==
    /\ last = "check_point_scored"
    /\ pre.ball.x - hbsx <= -hgx
    /\ \E p \in Player : pre.paddle[p].y # 0
    /\ events.new[Len(events.new)].player = "Player2"

\* C4: a speed-up step in which the timer, advanced by dt, reaches or crosses
\* one or more period boundaries multiplies the velocity by the factor exactly
\* once; any other speed-up step leaves the velocity as it was.
C4_SpeedupOnce ==
    last = "speedup_ball" =>
        IF pre.timer.elapsed + dt >= options.speedup_time
          THEN /\ vel.x * options.speedup_factor.den
                    = pre.vel.x * options.speedup_factor.num
               /\ vel.y * options.speedup_factor.den
                    = pre.vel.y * options.speedup_factor.num
          ELSE vel = pre.vel

\* C4 witness: a frame of ten periods has been through speedup_ball.
C4_Witness ==
    /\ last = "speedup_ball"
    /\ dt = 10 * options.speedup_time
    /\ options.speedup_factor.num > options.speedup_factor.den
    /\ vel.x * options.speedup_factor.den = pre.vel.x * options.speedup_factor.num
    /\ vel.x # 0

\* C5: a physics step whose integration brings the top edge of the ball to
\* or beyond the top boundary ends with the edge exactly on the boundary and
\* with the vertical velocity of the opposite sign to the one it began with.
C5_TopWall ==
    (last = "apply_ball_velocity" /\ Moved.y + hbs >= hgs) =>
        /\ ball.y + hbs = hgs
        /\ Sign(vel.y) = -Sign(pre.vel.y)

\* C6: in a physics step every paddle reporting a Left or Right face negates
\* the horizontal velocity only, every paddle reporting Top or Bottom negates
\* the vertical velocity only, a paddle reporting nothing changes neither, and
\* no paddle moves the ball: its position is the integrated one, but for the
\* wall clamp of y.
C6_PaddleResponse ==
    last = "apply_ball_velocity" =>
        LET nx == Cardinality({p \in DOMAIN Faces : Faces[p] \in {"Left", "Right"}})
            ny == Cardinality({p \in DOMAIN Faces : Faces[p] \in {"Top", "Bottom"}})
            nw == IF WallHit(options, Moved) = "None" THEN 0 ELSE 1
        IN  /\ vel.x = IF nx % 2 = 1 THEN -pre.vel.x ELSE pre.vel.x
            /\ vel.y = IF (ny + nw) % 2 = 1 THEN -pre.vel.y ELSE pre.vel.y
            /\ ball.x = Moved.x
            /\ nw = 0 => ball.y = Moved.y

\* C6 witness: a paddle reported a Left or Right face, away from the walls.
C6_Witness ==
    /\ last = "apply_ball_velocity"
    /\ \E p \in DOMAIN Faces : Faces[p] \in {"Left", "Right"}
    /\ WallHit(options, Moved) = "None"
    /\ pre.vel.y # 0
    /\ vel = Vec2(-pre.vel.x, pre.vel.y)

\* C7: the vertical centre of the ball stays within
\* [-H/2 + ball_half_height, H/2 - ball_half_height], after every physics
\* step and after scoring.
C7_BallVertical == -hgs + hbs <= ball.y /\ ball.y <= hgs - hbs

\* C7 witness: an integration carried the ball beyond the top boundary.
C7_Witness ==
    /\ last = "apply_ball_velocity"
    /\ Moved.y + hbs > hgs
    /\ ball.y = hgs - hbs

\* 10 s, in half seconds.
TenSeconds == 2 * 10

\* C8, as claimed: on the 600 x 400 court with a 15 x 15 ball that no paddle
\* touches, from (0, 0) with velocity (30, 15), after 10 s the ball has
\* bounced off a wall at least once and its y lies within [-185, 185].
C8_Original ==
    (TickEnded /\ clock = TenSeconds) =>
        (bounced /\ -370 * Fine <= ball.y /\ ball.y <= 370 * Fine)

\* C8, amended: on that court, with the default speed-up, no paddle touches
\* the ball, and when the 10 s pass as one frame the ball has bounced off no
\* wall and its y lies within [-185, 185].
C8_TenSeconds ==
    /\ last = "apply_ball_velocity" =>
          \A p \in DOMAIN Faces : Faces[p] = "None"
    /\ (TickEnded /\ clock = TenSeconds /\ dt = TenSeconds) =>
          /\ ~bounced
          /\ -370 * Fine <= ball.y
          /\ ball.y <= 370 * Fine

\* C8 witness: the 10 s passed as one frame: one speed-up, the ball carried to
\* (330, 165) without touching a wall, and Player1 scored.
C8_Witness ==
    /\ TickEnded
    /\ clock = TenSeconds
    /\ dt = TenSeconds
    /\ ~bounced
    /\ vel = Vec2(30 * Fine, 15 * Fine)
    /\ ball = Vec2(0, 0)
    /\ score = [p \in Player |-> IF p = "Player1" THEN 1 ELSE 0]

\* C9: on the default court, a frame that begins with the ball at x = -299
\* ends with the score of Player2 incremented and the ball at (0, 0).
C9_FrameScores ==
    (TickEnded /\ tick0.ball.x = -598) =>
        /\ score["Player2"] = tick0.score["Player2"] + 1
        /\ ball = Vec2(0, 0)

\* C10: update_score_text runs after check_point_scored; it consumes the
\* events of the frame, and only those, in the order sent; and as a frame
\* ends the display shows the score of each player.
C10_Display ==
    /\ "update_score_text" \in done => "check_point_scored" \in done
    /\ last = "update_score_text" =>
          /\ pre.reader = tick0.event_count
          /\ reader = event_count
          /\ text = ShowEvents(pre.text, events.new)
    /\ TickEnded =>
          \A i \in 1..Len(text) :
              /\ ParseDecimal(text[i][1]) = score["Player1"]
              /\ ParseDecimal(text[i][3]) = score["Player2"]

\* C10 witness: a frame in which a point was scored has ended, with a display.
C10_Witness ==
    /\ TickEnded
    /\ event_count > tick0.event_count
    /\ Len(text) = 1
    /\ score["Player1"] = 2

\* C11: a scoring step that sees the ball at or beyond both the left and the
\* right boundary sends two events, one for Player2 and one for Player1, and
\* increments both scores.
C11_DoubleScore ==
    (/\ last = "check_point_scored"
     /\ pre.ball.x - hbsx <= -hgx
     /\ pre.ball.x + hbsx >= hgx) =>
        /\ event_count = pre.event_count + 2
        /\ \A p \in Player : score[p] = pre.score[p] + 1
        /\ \A p \in Player :
              \E i \in 1..Len(events.new) : events.new[i].player = p

\* C12: with or without a score display configured, a scoring step that sees
\* the ball at a boundary sends the event of the scoring player, increments
\* that score, and resets the ball and the paddles; and update_score_text
\* changes no score, no paddle, and neither the ball nor its velocity.
C12_Unconditional ==
    /\ (last = "check_point_scored" /\ Scorer(options, pre.ball) # "None") =>
          LET scoring_player == Scorer(options, pre.ball)
          IN  /\ event_count = pre.event_count + 1
              /\ Len(events.new) >= 1
              /\ events.new[Len(events.new)] =
                    [player |-> scoring_player, score |-> score[scoring_player]]
              /\ score = [pre.score EXCEPT ![scoring_player] = (@ + 1) % U16]
              /\ ball = Vec2(0, 0)
              /\ paddle = [p \in DOMAIN pre.paddle |->
                              Vec2(pre.paddle[p].x, 0)]
    /\ last = "update_score_text" =>
          /\ score = pre.score
          /\ paddle = pre.paddle
          /\ ball = pre.ball
          /\ vel = pre.vel
          /\ event_count = pre.event_count

\* C12 witness: a point was scored with no score display configured.
C12_Witness ==
    /\ last = "check_point_scored"
    /\ ~options.score_display
    /\ text = <<>>
    /\ event_count = pre.event_count + 1
    /\ \E p \in Player : score[p] = pre.score[p] + 1

\* C13: a physics step in which the moved ball overlaps no paddle and touches
\* neither the top nor the bottom wall ends with the ball at
\* pos + velocity * dt on both axes, pos and velocity being those the step
\* began with, and with the velocity unchanged.
C13_Integration ==
    LET target == Vec2(pre.ball.x + pre.vel.x * dt, pre.ball.y + pre.vel.y * dt)
    IN  (/\ last = "apply_ball_velocity"
         /\ \A p \in DOMAIN pre.paddle :
               collide(pre.paddle[p], options.player_size,
                       target, options.ball_size) = "None"
         /\ target.y + hbs < hgs
         /\ target.y - hbs > -hgs) =>
            /\ ball = target
            /\ vel = pre.vel

\* C13 witness: a free flight over a delta of half a second on both axes.
C13_Witness ==
    /\ last = "apply_ball_velocity"
    /\ dt = 1
    /\ pre.vel.x # 0
    /\ pre.vel.y # 0
    /\ \A p \in DOMAIN pre.paddle :
          PaddleHit(options, pre.paddle, p, ball) = "None"
    /\ WallHit(options, ball) = "None"
    /\ ball = Vec2(pre.ball.x + pre.vel.x, pre.ball.y + pre.vel.y)
    /\ ball # pre.ball

\* C14: a scoring step that sees the ball at a boundary increases the score of
\* the scoring player by exactly one, leaves the other score alone, and sends
\* an event carrying that player and the score after the increment; no other
\* step changes a score, so no score ever decreases.
C14_ScoreIncrement ==
    /\ last = "check_point_scored" =>
          LET scoring_player == Scorer(options, pre.ball)
          IN  IF scoring_player = "None"
                THEN score = pre.score /\ event_count = pre.event_count
                ELSE /\ score[scoring_player] = pre.score[scoring_player] + 1
                     /\ \A p \in DOMAIN score \ {scoring_player} :
                           score[p] = pre.score[p]
                     /\ event_count = pre.event_count + 1
                     /\ events.new[Len(events.new)] =
                           [player |-> scoring_player,
                            score |-> pre.score[scoring_player] + 1]
    /\ last # "check_point_scored" => score = pre.score
    /\ \A p \in DOMAIN score : score[p] >= pre.score[p]

\* C15: whatever frames have run, the x of each paddle is the one given at
\* start-up, -(W/2 - paddle_width) for Player1 and W/2 - paddle_width for
\* Player2; no step writes it.
C15_PaddleX ==
    /\ \A p \in DOMAIN paddle :
          paddle[p].x = IF p = "Player1"
                          THEN -(hgx - options.player_size.x)
                          ELSE hgx - options.player_size.x
    /\ \A p \in DOMAIN paddle : paddle[p].x = pre.paddle[p].x

\* C15 witness: a score reset a paddle that input had moved away from y = 0.
C15_Witness ==
    /\ last = "check_point_scored"
    /\ event_count = pre.event_count + 1
    /\ \E p \in DOMAIN paddle :
          /\ pre.paddle[p].y # 0
          /\ pre.paddle[p].y # tick0.paddle[p].y
          /\ paddle[p].y = 0
          /\ paddle[p].x # 0

\* The paddles of the frame once handle_player_input has run on those the
\* frame began with.
C16_Paddles ==
    [p \in DOMAIN tick0.paddle |->
        Vec2(tick0.paddle[p].x,
             MovePaddle(options, p, tick0.paddle[p].y, keys, dt))]

\* The timer of the frame once speedup_ball has run on the one it began with.
C16_Timer == Timer_tick(tick0.timer, options.speedup_time, dt)

\* The velocity of the frame once speedup_ball has run on the one it began with.
C16_Velocity == Speedup(options, C16_Timer, tick0.vel)

\* C16: handle_player_input and speedup_ball commute: whichever ran first, once
\* both have run the paddles are those input alone produces and the timer and
\* velocity those speed-up alone produces, with nothing else changed; neither
\* apply_ball_velocity nor check_point_scored starts before both have run; and
\* apply_ball_velocity collides the ball against these paddles and moves it by
\* this velocity.
C16_InputSpeedupCommute ==
    /\ ({"handle_player_input", "speedup_ball"} \subseteq done
        /\ done \cap {"apply_ball_velocity", "check_point_scored"} = {}) =>
          /\ paddle = C16_Paddles
          /\ timer = C16_Timer
          /\ vel = C16_Velocity
          /\ ball = tick0.ball
          /\ score = tick0.score
    /\ (done \cap {"apply_ball_velocity", "check_point_scored"} # {}) =>
          {"handle_player_input", "speedup_ball"} \subseteq done
    /\ last = "apply_ball_velocity" =>
          /\ pre.timer = C16_Timer
          /\ pre.paddle = C16_Paddles
          /\ pre.vel = C16_Velocity

\* C17: for a paddle within bounds whose up and down keys are both pressed in
\* a frame with movement m = speed * dt > 0, the displacement over
\* handle_player_input is 0 or -m and never +m: 0 when the up move is applied
\* (the down move is then applied too), and -m or 0 when the up move is
\* rejected at the top, as the down test then allows or not.
C17_BothKeys ==
    last = "handle_player_input" =>
        \A p \in DOMAIN paddle :
            LET m == options.player_speed * dt
                y == pre.paddle[p].y
                net == paddle[p].y - y
            IN  (/\ up_for(options, p) \in keys
                 /\ down_for(options, p) \in keys
                 /\ m > 0
                 /\ -hgs + hps <= y
                 /\ y <= hgs - hps) =>
                    /\ net \in {0, -m}
                    /\ (y + hps + m <= hgs) => net = 0
                    /\ (y + hps + m > hgs /\ y - hps - m >= -hgs) => net = -m

\* C17 witness: with both keys held the up move was rejected at the top and
\* the down move applied.
C17_Witness ==
    /\ last = "handle_player_input"
    /\ \E p \in DOMAIN paddle :
          /\ up_for(options, p) \in keys
          /\ down_for(options, p) \in keys
          /\ dt > 0
          /\ pre.paddle[p].y + hps + options.player_speed * dt > hgs
          /\ paddle[p].y = pre.paddle[p].y - options.player_speed * dt

\* C17 witness of the other case: both moves applied from the bottom bound.
C17_WitnessNetZero ==
    /\ last = "handle_player_input"
    /\ \E p \in DOMAIN paddle :
          /\ up_for(options, p) \in keys
          /\ down_for(options, p) \in keys
          /\ dt > 0
          /\ pre.paddle[p].y = -hgs + hps
          /\ pre.paddle[p].y + hps + options.player_speed * dt <= hgs
          /\ paddle[p].y = pre.paddle[p].y

\* C18: with one ball and one paddle per side, as every frame ends the number
\* of events sent since start-up equals score(Player1) + score(Player2), and
\* no frame sends more than one event or raises the sum of the scores by more
\* than one.
C18_Accounting ==
    TickEnded =>
        /\ DOMAIN score = Player
        /\ event_count = score["Player1"] + score["Player2"]
        /\ event_count - tick0.event_count <= 1
        /\ (score["Player1"] + score["Player2"])
             - (tick0.score["Player1"] + tick0.score["Player2"]) <= 1

=============================================================================
